---- MODULE Spec2Model ----
(***************************************************************************)
(* Model of the LinkedIn content-automation program: the Streamlit session *)
(* controller (app.py), the idea generator and its response parser         *)
(* (src/idea_generator.py) and the brief-post generator and its parser     *)
(* (src/brief_post_generator.py).                                          *)
(*                                                                         *)
(* Text is modelled as a sequence of one-character strings, so that the    *)
(* string operations of the code (strip, split, lower, substring tests,   *)
(* the regular expression of the brief-post parser) are computed character *)
(* by character.  A Python dict of an idea is a record holding the set of  *)
(* keys that are present and the value of each key (the empty text for an  *)
(* absent key).                                                            *)
(*                                                                         *)
(* The alphabet of the texts is Latin-1 (the characters U+0001 to U+00FF): *)
(* the character classes below (whitespace, digits, capitals) are those of *)
(* Python over these characters.  Beyond U+00FF Python knows further       *)
(* whitespace, digits and capitals, which are outside the model.           *)
(***************************************************************************)
EXTENDS Integers, Sequences, FiniteSets, TLC

VARIABLES
    raw,              \* parser harness: the raw response text handed to a parser
    given,            \* parser harness: the lines / records / chunks put into raw
    expected_count,   \* parser harness: the expected_count argument
    pc,               \* parser harness: "input" while raw is built, "parsed" after
    out,              \* parser harness: what the parser returned
    content_pillars,  \* the loaded 'content_pillars' mapping of content_pillars.yaml
    day_name,         \* pillar harness: the day_name argument (<<>> is None)
    pillar,           \* pillar harness: what _get_day_pillar returned
    api_key,          \* environment: OPENAI_API_KEY (<<>> is unset, <<v>> the value v)
    ideas,            \* st.session_state.ideas
    selected_idea,    \* st.session_state.selected_idea (<<>> is None, <<idea>> an idea)
    brief_posts,      \* st.session_state.brief_posts
    selected_day,     \* st.session_state.selected_day
    context,          \* st.session_state.context
    event,            \* the last run of main: which user action triggered it
    msg,              \* the last run of main: the message it showed
    calls             \* the last run of main: completion-service calls it made

vars == <<raw, given, expected_count, pc, out, content_pillars, day_name, pillar,
          api_key, ideas, selected_idea, brief_posts, selected_day, context,
          event, msg, calls>>

parserVars == <<raw, given, expected_count, pc, out>>
pillarVars == <<day_name, pillar>>
appVars == <<api_key, ideas, selected_idea, brief_posts, selected_day, context,
             event, msg, calls>>

----------------------------------------------------------------------------
(* Bounds of the model.                                                    *)

MaxLines == 4
MaxRecords == 3
MaxChunks == 4
MaxExpected == 2

----------------------------------------------------------------------------
(* Python string operations.                                               *)

\* the whitespace of str.strip() and of \s in a pattern: tab, line feed,
\* vertical tab, form feed, carriage return, U+001C to U+001F, space, U+0085
\* (next line) and U+00A0 (no-break space)
IsSpace(c) ==
    c \in {"\t", "\n", "", "\f", "\r", "", "", "", "", " ",
           "", " "}

\* \d in a pattern: the decimal digits
IsDecimalDigit(c) == c \in {"0", "1", "2", "3", "4", "5", "6", "7", "8", "9"}

\* str.isdigit(): the decimal digits and the superscripts two, three and one
IsDigit(c) == IsDecimalDigit(c) \/ c \in {"²", "³", "¹"}

UpperLetters == <<"A", "B", "C", "D", "E", "F", "G", "H", "I", "J", "K", "L", "M",
                  "N", "O", "P", "Q", "R", "S", "T", "U", "V", "W", "X", "Y", "Z",
                  "À", "Á", "Â", "Ã", "Ä", "Å", "Æ", "Ç", "È", "É", "Ê", "Ë", "Ì",
                  "Í", "Î", "Ï", "Ð", "Ñ", "Ò", "Ó", "Ô", "Õ", "Ö", "Ø", "Ù", "Ú",
                  "Û", "Ü", "Ý", "Þ">>

LowerLetters == <<"a", "b", "c", "d", "e", "f", "g", "h", "i", "j", "k", "l", "m",
                  "n", "o", "p", "q", "r", "s", "t", "u", "v", "w", "x", "y", "z",
                  "à", "á", "â", "ã", "ä", "å", "æ", "ç", "è", "é", "ê", "ë", "ì",
                  "í", "î", "ï", "ð", "ñ", "ò", "ó", "ô", "õ", "ö", "ø", "ù", "ú",
                  "û", "ü", "ý", "þ">>

\* the lower case of one character: of A to Z and of the capitals of Latin-1
\* (U+00C0 to U+00DE but the multiplication sign U+00D7)
LowerChar(c) ==
    IF \E i \in DOMAIN UpperLetters : UpperLetters[i] = c
    THEN LowerLetters[CHOOSE i \in DOMAIN UpperLetters : UpperLetters[i] = c]
    ELSE c

\* str.lower()
Lower(s) == [i \in 1..Len(s) |-> LowerChar(s[i])]

SetMin(S) == CHOOSE i \in S : \A j \in S : i <= j

SetMax(S) == CHOOSE i \in S : \A j \in S : j <= i

\* str.strip()
Strip(s) ==
    LET keep == {i \in 1..Len(s) : ~IsSpace(s[i])}
    IN  IF keep = {} THEN <<>> ELSE SubSeq(s, SetMin(keep), SetMax(keep))

\* the positions at which sub occurs in s
Occurrences(s, sub) ==
    {i \in 1..(Len(s) - Len(sub) + 1) : SubSeq(s, i, i + Len(sub) - 1) = sub}

\* sub in s
Contains(s, sub) == Occurrences(s, sub) # {}

\* s.split(sep): the pieces between the non-overlapping occurrences of sep,
\* found left to right
RECURSIVE Split(_, _)
Split(s, sep) ==
    LET hits == Occurrences(s, sep)
    IN  IF hits = {}
        THEN <<s>>
        ELSE LET i == SetMin(hits)
             IN  <<SubSeq(s, 1, i - 1)>> \o Split(SubSeq(s, i + Len(sep), Len(s)), sep)

\* s.split(sep, 1)[-1]: what follows the first sep, or s when it has none
AfterFirst(s, sep) ==
    LET hits == Occurrences(s, sep)
    IN  IF hits = {} THEN s ELSE SubSeq(s, SetMin(hits) + Len(sep), Len(s))

\* sep.join(parts)
RECURSIVE Join(_, _)
Join(parts, sep) ==
    IF parts = <<>> THEN <<>>
    ELSE IF Len(parts) = 1 THEN parts[1]
    ELSE parts[1] \o sep \o Join(Tail(parts), sep)

\* s[:n]
Take(s, n) == SubSeq(s, 1, IF Len(s) < n THEN Len(s) ELSE n)

NL == <<"\n">>

----------------------------------------------------------------------------
(* src/idea_generator.py: IdeaGenerator._parse_ideas.                       *)

\* line[:3] is searched for '.' or ')'
MarkerPrefixLen == 3

\* parts[:7] of the fallback
FallbackMaxParts == 7

\* {}
EmptyIdea == [keys |-> {}, title |-> <<>>, description |-> <<>>, hook |-> <<>>]

\* d[k] = v
SetKey(d, k, v) == [d EXCEPT !.keys = @ \cup {k}, ![k] = v]

\* the truth value of a dict: it has a key
Truthy(d) == d.keys # {}

\* line[0].isdigit() and ('.' in line[:3] or ')' in line[:3]), line not empty
IsRecordStart(line) ==
    /\ IsDigit(line[1])
    /\ \/ Contains(Take(line, MarkerPrefixLen), <<".">>)
       \/ Contains(Take(line, MarkerPrefixLen), <<")">>)

\* 'hook' in line.lower() or 'angle' in line.lower()
IsHookMarker(line) ==
    \/ Contains(Lower(line), <<"h", "o", "o", "k">>)
    \/ Contains(Lower(line), <<"a", "n", "g", "l", "e">>)

\* line.split('.', 1)[-1].split(')', 1)[-1].strip()
ExtractTitle(line) == Strip(AfterFirst(AfterFirst(line, <<".">>), <<")">>))

\* a mutant of StartIdea: the title key is set whatever the title is
StartIdeaUnguarded(line) == SetKey(EmptyIdea, "title", ExtractTitle(line))

\* current_idea = {}; if title: current_idea['title'] = title
StartIdea(line) ==
    IF ExtractTitle(line) # <<>>
    THEN SetKey(EmptyIdea, "title", ExtractTitle(line))
    ELSE EmptyIdea

\* the state before the loop over the lines
ParseStart ==
    [ideas |-> <<>>, current_idea |-> EmptyIdea, current_section |-> "none",
     current_text |-> <<>>]

\* "Save previous idea if exists", when a numbered line is seen
SavePrevious(st) ==
    IF Truthy(st.current_idea)
    THEN Append(st.ideas,
                IF st.current_section = "description"
                THEN SetKey(st.current_idea, "description", Join(st.current_text, <<" ">>))
                ELSE IF st.current_section = "hook"
                THEN SetKey(st.current_idea, "hook", Join(st.current_text, <<" ">>))
                ELSE st.current_idea)
    ELSE st.ideas

\* one iteration of the loop over the lines
ParseLine(st, rawline) ==
    LET line == Strip(rawline)
    IN  IF line = <<>> THEN st
        ELSE IF IsRecordStart(line)
        THEN [ideas |-> SavePrevious(st), current_idea |-> StartIdea(line),
              current_section |-> "title", current_text |-> <<>>]
        ELSE IF IsHookMarker(line)
        THEN [st EXCEPT
                 !.current_idea =
                     IF Truthy(@) /\ st.current_text # <<>>
                     THEN SetKey(@, "description", Join(st.current_text, <<" ">>))
                     ELSE @,
                 !.current_text = <<>>,
                 !.current_section = "hook"]
        ELSE IF Truthy(st.current_idea)
        THEN IF st.current_section = "title" /\ "title" \notin st.current_idea.keys
             THEN [st EXCEPT !.current_text = Append(@, line),
                             !.current_idea = SetKey(@, "title", line),
                             !.current_section = "description"]
             ELSE [st EXCEPT !.current_text = Append(@, line)]
        ELSE st

\* the loop over the lines
RECURSIVE ParseLines(_, _)
ParseLines(st, lines) ==
    IF lines = <<>> THEN st ELSE ParseLines(ParseLine(st, Head(lines)), Tail(lines))

\* "Save last idea", after the loop
SaveLast(st) ==
    IF Truthy(st.current_idea)
    THEN Append(st.ideas,
                IF st.current_text = <<>> THEN st.current_idea
                ELSE IF st.current_section = "hook"
                THEN SetKey(st.current_idea, "hook", Join(st.current_text, <<" ">>))
                ELSE IF "description" \notin st.current_idea.keys
                THEN SetKey(st.current_idea, "description", Join(st.current_text, <<" ">>))
                ELSE st.current_idea)
    ELSE st.ideas

\* the numbered pass: everything before the fallback
PrimaryIdeas(ideas_text) == SaveLast(ParseLines(ParseStart, Split(Strip(ideas_text), NL)))

\* [line.strip() for line in part.split('\n') if line.strip()]
RECURSIVE NonBlankLines(_)
NonBlankLines(lines) ==
    IF lines = <<>> THEN <<>>
    ELSE IF Strip(Head(lines)) = <<>> THEN NonBlankLines(Tail(lines))
    ELSE <<Strip(Head(lines))>> \o NonBlankLines(Tail(lines))

\* the record the fallback makes of the lines of one part
FallbackIdea(lines) ==
    [keys |-> {"title", "description", "hook"},
     title |-> lines[1],
     description |-> IF Len(lines) > 1 THEN Join(Tail(lines), <<" ">>) ELSE <<>>,
     hook |-> <<>>]

\* the loop of the fallback over the parts
RECURSIVE FallbackParts(_)
FallbackParts(parts) ==
    IF parts = <<>> THEN <<>>
    ELSE LET lines == NonBlankLines(Split(Head(parts), NL))
         IN  (IF lines # <<>> THEN <<FallbackIdea(lines)>> ELSE <<>>)
             \o FallbackParts(Tail(parts))

\* a mutant of FallbackIdeas: the text is cut at every newline
FallbackIdeasByLine(ideas_text) ==
    FallbackParts(Take(Split(ideas_text, NL), FallbackMaxParts))

\* the fallback: the first seven parts between blank lines
FallbackIdeas(ideas_text) ==
    FallbackParts(Take(Split(ideas_text, <<"\n", "\n">>), FallbackMaxParts))

\* _parse_ideas(ideas_text)
ParseIdeas(ideas_text) ==
    IF PrimaryIdeas(ideas_text) # <<>>
    THEN PrimaryIdeas(ideas_text)
    ELSE FallbackIdeas(ideas_text)

----------------------------------------------------------------------------
(* The values the variables of the other harnesses keep in a specification *)
(* that does not use them.                                                 *)

IdleParser ==
    /\ raw = <<>> /\ given = <<>> /\ expected_count = 0 /\ pc = "idle" /\ out = <<>>

IdlePillar == day_name = <<>> /\ pillar = [raised |-> FALSE, name |-> "", description |-> ""]

IdleApp ==
    /\ api_key = <<>> /\ ideas = <<>> /\ selected_idea = <<>> /\ brief_posts = <<>>
    /\ selected_day = <<>> /\ context = <<>> /\ event = "idle" /\ msg = "idle"
    /\ calls = 0

NoPillars == [d \in {} |-> 0]

----------------------------------------------------------------------------
(* SpecIdeas: _parse_ideas applied to every text of at most MaxLines lines  *)
(* drawn from IdeaLines.                                                    *)

IdeaLines ==
    { <<"1", ".", " ", "A">>, <<"2", ".", " ", "(", "B", ")">>, <<"3", ".">>,
      <<" ", "d", "e">>,
      <<"H", "o", "o", "k", ":">>,
      <<"A", "n", "g", "l", "e", ":", " ", "z">>,
      <<" ", "²", ")", " ", "É", "">>,
      <<>> }

InitIdeas ==
    /\ raw = <<>> /\ given = <<>> /\ expected_count = 0 /\ pc = "input" /\ out = <<>>
    /\ content_pillars = NoPillars /\ IdlePillar /\ IdleApp

\* one more line of the response
AppendLine ==
    /\ pc = "input"
    /\ Len(given) < MaxLines
    /\ \E l \in IdeaLines :
          /\ given' = Append(given, l)
          /\ raw' = Join(Append(given, l), NL)
    /\ UNCHANGED <<expected_count, pc, out, content_pillars>>
    /\ UNCHANGED pillarVars /\ UNCHANGED appVars

\* ideas = self._parse_ideas(ideas_text)
ApplyParseIdeas ==
    /\ pc = "input"
    /\ out' = ParseIdeas(raw)
    /\ pc' = "parsed"
    /\ UNCHANGED <<raw, given, expected_count, content_pillars>>
    /\ UNCHANGED pillarVars /\ UNCHANGED appVars

NextIdeas == AppendLine \/ ApplyParseIdeas

SpecIdeas == InitIdeas /\ [][NextIdeas]_vars

----------------------------------------------------------------------------
(* SpecScenario: _parse_ideas applied to the six-line response of the       *)
(* specification's scenario and to every text made of a part of its lines. *)

ScenarioLines ==
    << <<"1", ".", " ", "I", "d", "e", "a", " ", "A">>,
       <<"D", "e", "s", "c", "r", "i", "p", "t", "i", "o", "n", " ", "l", "i", "n", "e", ".">>,
       <<"H", "o", "o", "k", ":", " ", "s", "n", "a", "r", "k", "y", " ", "o", "p", "e", "n", "e", "r">>,
       <<>>,
       <<"2", ".", " ", "I", "d", "e", "a", " ", "B">>,
       <<"A", "n", "o", "t", "h", "e", "r", " ", "d", "e", "s", "c", ".">> >>

\* the lines of s that mask keeps, each ended by a newline
RECURSIVE KeptLines(_, _)
KeptLines(s, mask) ==
    IF s = <<>> THEN <<>>
    ELSE (IF Head(mask) THEN <<Head(s)>> ELSE <<>>) \o KeptLines(Tail(s), Tail(mask))

RECURSIVE EndedLines(_)
EndedLines(lines) ==
    IF lines = <<>> THEN <<>> ELSE Head(lines) \o NL \o EndedLines(Tail(lines))

InitScenario ==
    /\ \E mask \in [1..Len(ScenarioLines) -> BOOLEAN] :
          /\ given = KeptLines(ScenarioLines, mask)
          /\ raw = EndedLines(KeptLines(ScenarioLines, mask))
    /\ expected_count = 0 /\ pc = "input" /\ out = <<>>
    /\ content_pillars = NoPillars /\ IdlePillar /\ IdleApp

NextScenario == ApplyParseIdeas

SpecScenario == InitScenario /\ [][NextScenario]_vars

----------------------------------------------------------------------------
(* SpecRecords: _parse_ideas applied to every well-formed numbered response *)
(* of at most MaxRecords records.  A record is a numbered title line, one   *)
(* or two description lines, a hook or angle marker line and a line of hook *)
(* text; records are separated by a blank line.                             *)

Digits == <<"1", "2", "3", "4", "5", "6", "7", "8", "9">>

TitleTexts(n) == { <<"A", Digits[n]>>, <<"(", "B", Digits[n], ")">> }

NumberPuncts == { <<".">>, <<")">> }

Descriptions == { << <<"d", "e">> >>, << <<"d", "e">>, <<"f", "g">> >> }

HookMarkers == { <<"H", "o", "o", "k", ":">>, <<"A", "n", "g", "l", "e", ":", " ", "z">> }

HookText == <<"o", "p", "e", "n">>

\* the text of one record
RecordText(n, punct, title, desc, marker) ==
    <<Digits[n]>> \o punct \o <<" ">> \o title \o NL
    \o Join(desc, NL) \o NL
    \o marker \o NL
    \o HookText

InitRecords ==
    /\ raw = <<>> /\ given = <<>> /\ expected_count = 0 /\ pc = "input" /\ out = <<>>
    /\ content_pillars = NoPillars /\ IdlePillar /\ IdleApp

\* one more record of the response
AppendRecord ==
    /\ pc = "input"
    /\ Len(given) < MaxRecords
    /\ \E punct \in NumberPuncts, title \in TitleTexts(Len(given) + 1),
          desc \in Descriptions, marker \in HookMarkers :
          /\ given' = Append(given, [title |-> title,
                                     description |-> Join(desc, <<" ">>),
                                     hook |-> HookText])
          /\ raw' = (IF given = <<>> THEN <<>> ELSE raw \o NL \o NL)
                    \o RecordText(Len(given) + 1, punct, title, desc, marker)
    /\ UNCHANGED <<expected_count, pc, out, content_pillars>>
    /\ UNCHANGED pillarVars /\ UNCHANGED appVars

NextRecords == AppendRecord \/ ApplyParseIdeas

SpecRecords == InitRecords /\ [][NextRecords]_vars

----------------------------------------------------------------------------
(* Claims about _parse_ideas.                                              *)

\* key k of idea d is present and holds v
FieldIs(d, k, v) == k \in d.keys /\ d[k] = v

\* key k of idea d is present and holds a non-empty text
Populated(d, k) == k \in d.keys /\ d[k] # <<>>

\* some line of the text is a record-start marker
HasRecordStart(text) ==
    \E i \in DOMAIN Split(text, NL) :
        /\ Strip(Split(text, NL)[i]) # <<>>
        /\ IsRecordStart(Strip(Split(text, NL)[i]))

\* the text holds a blank-line paragraph separator
HasBlankLineSeparator(text) == Contains(text, <<"\n", "\n">>)

\* the lines that are not blank, trimmed
RECURSIVE Trimmed(_)
Trimmed(lines) ==
    IF lines = <<>> THEN <<>>
    ELSE (IF \A i \in DOMAIN Head(lines) : IsSpace(Head(lines)[i])
          THEN <<>> ELSE <<Strip(Head(lines))>>) \o Trimmed(Tail(lines))

\* C3 (as claimed): the scenario's six lines parse to two records, the first
\* with title 'Idea A', description 'Description line.' and hook 'snarky
\* opener', the second with title 'Idea B', description 'Another desc.' and
\* an empty or absent hook.
C3_ScenarioHookCaptured ==
    (pc = "parsed" /\ given = ScenarioLines) =>
        /\ Len(out) = 2
        /\ FieldIs(out[1], "title", <<"I", "d", "e", "a", " ", "A">>)
        /\ FieldIs(out[1], "description", <<"D", "e", "s", "c", "r", "i", "p", "t", "i", "o", "n", " ", "l", "i", "n", "e", ".">>)
        /\ FieldIs(out[1], "hook", <<"s", "n", "a", "r", "k", "y", " ", "o", "p", "e", "n", "e", "r">>)
        /\ FieldIs(out[2], "title", <<"I", "d", "e", "a", " ", "B">>)
        /\ FieldIs(out[2], "description", <<"A", "n", "o", "t", "h", "e", "r", " ", "d", "e", "s", "c", ".">>)
        /\ ("hook" \notin out[2].keys \/ out[2].hook = <<>>)

\* C5 (as claimed): a well-formed numbered response of N records parses to
\* exactly N records, in the order of the response, each with a non-empty
\* title, description and hook.
C5_WellFormedRecordsAllParsed ==
    pc = "parsed" =>
        /\ Len(out) = Len(given)
        /\ \A i \in 1..Len(out) :
              /\ i <= Len(given) => FieldIs(out[i], "title", given[i].title)
              /\ Populated(out[i], "title")
              /\ Populated(out[i], "description")
              /\ Populated(out[i], "hook")

\* C6 (as claimed): a text with no record-start line and no blank-line
\* separator parses to the empty sequence.
C6_NoMarkersGivesNothing ==
    (pc = "parsed" /\ ~HasRecordStart(raw) /\ ~HasBlankLineSeparator(raw)) =>
        out = <<>>

\* C6 (amended): a text with no record-start line and no blank-line separator
\* parses to the empty sequence exactly when it has no non-blank line;
\* otherwise it parses to exactly one record, whose title is the first
\* non-blank line trimmed, whose description is the other non-blank lines
\* trimmed and joined by spaces, and whose hook is empty.
C6_NoMarkersGivesOneParagraph ==
    (pc = "parsed" /\ ~HasRecordStart(raw) /\ ~HasBlankLineSeparator(raw)) =>
        IF Trimmed(given) = <<>>
        THEN out = <<>>
        ELSE /\ Len(out) = 1
             /\ FieldIs(out[1], "title", Head(Trimmed(given)))
             /\ FieldIs(out[1], "description", Join(Tail(Trimmed(given)), <<" ">>))
             /\ FieldIs(out[1], "hook", <<>>)

\* C6 witness: a single paragraph of two or more plain lines was parsed.
C6_Witness ==
    /\ pc = "parsed" /\ ~HasRecordStart(raw) /\ ~HasBlankLineSeparator(raw)
    /\ Len(Trimmed(given)) >= 2
    /\ \A i \in DOMAIN given : ~IsHookMarker(given[i])
    /\ Len(out) = 1

\* C8: every record _parse_ideas returns has a 'title' key holding a
\* non-empty text.
C8_EveryRecordHasTitle ==
    pc = "parsed" => \A i \in 1..Len(out) : Populated(out[i], "title")

\* C8 witness: a response whose first line is a numeral with no text after it
\* and that has a titled record after it was parsed on the numbered path.
C8_Witness ==
    /\ pc = "parsed"
    /\ Len(given) >= 2
    /\ given[1] # <<>>
    /\ IsRecordStart(given[1]) /\ ExtractTitle(given[1]) = <<>>
    /\ PrimaryIdeas(raw) # <<>>
    /\ out # <<>>

----------------------------------------------------------------------------
(* src/brief_post_generator.py: BriefPostGenerator._parse_brief_posts.      *)

\* len(section) > 20
MinPostLen == 20

\* the first position from i on that holds no digit
RECURSIVE DigitsEnd(_, _)
DigitsEnd(s, i) == IF i <= Len(s) /\ IsDecimalDigit(s[i]) THEN DigitsEnd(s, i + 1) ELSE i

\* the first position from i on that holds no whitespace
RECURSIVE SpacesEnd(_, _)
SpacesEnd(s, i) == IF i <= Len(s) /\ IsSpace(s[i]) THEN SpacesEnd(s, i + 1) ELSE i

\* r'^\d+[\.\)]\s*' with re.MULTILINE matches s at position i
NumberMatchesAt(s, i) ==
    /\ i = 1 \/ s[i - 1] = "\n"
    /\ DigitsEnd(s, i) > i
    /\ DigitsEnd(s, i) <= Len(s)
    /\ s[DigitsEnd(s, i)] \in {".", ")"}

\* the position after the match at i
NumberMatchEnd(s, i) == SpacesEnd(s, DigitsEnd(s, i) + 1)

\* re.split(pattern, s, flags=re.MULTILINE), from position from on
RECURSIVE ReSplitFrom(_, _)
ReSplitFrom(s, from) ==
    LET hits == {i \in from..Len(s) : NumberMatchesAt(s, i)}
    IN  IF hits = {}
        THEN <<SubSeq(s, from, Len(s))>>
        ELSE <<SubSeq(s, from, SetMin(hits) - 1)>>
             \o ReSplitFrom(s, NumberMatchEnd(s, SetMin(hits)))

\* re.split(pattern, posts_text, flags=re.MULTILINE)
ReSplit(s) == ReSplitFrom(s, 1)

\* re.sub(pattern, '', part, flags=re.MULTILINE)
ReSub(s) == Join(ReSplit(s), <<>>)

\* the sections kept by the numbered split: trimmed, and longer than 20
RECURSIVE KeptSections(_)
KeptSections(sections) ==
    IF sections = <<>> THEN <<>>
    ELSE (IF Len(Strip(Head(sections))) > MinPostLen
          THEN <<Strip(Head(sections))>> ELSE <<>>) \o KeptSections(Tail(sections))

\* the parts kept by the alternative method: trimmed, then the leading
\* numbers removed, and longer than 20
RECURSIVE KeptParts(_)
KeptParts(parts) ==
    IF parts = <<>> THEN <<>>
    ELSE (IF Len(ReSub(Strip(Head(parts)))) > MinPostLen
          THEN <<ReSub(Strip(Head(parts)))>> ELSE <<>>) \o KeptParts(Tail(parts))

\* _parse_brief_posts(posts_text, expected_count), expected_count >= 0
ParseBriefPosts(posts_text, k) ==
    IF Len(KeptSections(ReSplit(posts_text))) < k
    THEN Take(KeptParts(Split(posts_text, <<"\n", "\n">>)), k)
    ELSE Take(KeptSections(ReSplit(posts_text)), k)

----------------------------------------------------------------------------
(* SpecBrief: _parse_brief_posts applied to every text of at most MaxChunks *)
(* chunks drawn from BriefChunks, with expected_count in 0..MaxExpected.    *)

Body20 == [i \in 1..MinPostLen |-> "a"]

Body21 == [i \in 1..(MinPostLen + 1) |-> "b"]

BriefChunks ==
    { Body20, Body21, NL, <<" ">>, <<"1", ".">>, <<"2", ")">>, <<"²", ".", " ">> }

InitBrief ==
    /\ raw = <<>> /\ given = <<>> /\ pc = "input" /\ out = <<>>
    /\ expected_count \in 0..MaxExpected
    /\ content_pillars = NoPillars /\ IdlePillar /\ IdleApp

\* one more chunk of the response
AppendChunk ==
    /\ pc = "input"
    /\ Len(given) < MaxChunks
    /\ \E c \in BriefChunks :
          /\ given' = Append(given, c)
          /\ raw' = raw \o c
    /\ UNCHANGED <<expected_count, pc, out, content_pillars>>
    /\ UNCHANGED pillarVars /\ UNCHANGED appVars

\* brief_posts = self._parse_brief_posts(posts_text, num_versions)
ApplyParseBriefPosts ==
    /\ pc = "input"
    /\ out' = ParseBriefPosts(raw, expected_count)
    /\ pc' = "parsed"
    /\ UNCHANGED <<raw, given, expected_count, content_pillars>>
    /\ UNCHANGED pillarVars /\ UNCHANGED appVars

NextBrief == AppendChunk \/ ApplyParseBriefPosts

SpecBrief == InitBrief /\ [][NextBrief]_vars

\* C4 (as claimed): _parse_brief_posts(raw, k) returns at most k elements, and
\* every element it returns is longer than 20 characters once trimmed.
C4_AtMostKAndLongWhenTrimmed ==
    pc = "parsed" =>
        /\ Len(out) <= expected_count
        /\ \A i \in 1..Len(out) : Len(Strip(out[i])) > MinPostLen

----------------------------------------------------------------------------
(* src/idea_generator.py: IdeaGenerator._get_day_pillar.  The loaded        *)
(* mapping pillars['content_pillars'] is a function from day names to       *)
(* entries; an entry holds the set of its keys and the values of 'name' and *)
(* 'description'.  An optional argument is <<>> for None and <<v>> for v.   *)

MONDAY == <<"m", "o", "n", "d", "a", "y">>

FRIDAY == <<"f", "r", "i", "d", "a", "y">>

\* a key of the mapping that holds a letter outside A to Z
ETE == <<"é", "t", "é">>

\* {}: the default of .get(day_name, {})
EmptyEntry == [keys |-> {}, name |-> "", description |-> ""]

\* a KeyError
Raised == [raised |-> TRUE, name |-> "", description |-> ""]

\* {'name': n, 'description': d}
Returned(n, d) == [raised |-> FALSE, name |-> n, description |-> d]

\* day_name = datetime.now().strftime("%A").lower() if day_name is None
\* else day_name.lower()
NormalDay(day, today) == IF day = <<>> THEN Lower(today) ELSE Lower(day[1])

\* pillars['content_pillars'].get(day_name, {})
PillarEntry(pillars, day) == IF day \in DOMAIN pillars THEN pillars[day] ELSE EmptyEntry

\* pillar_data.get(k, '')
EntryGet(entry, k) == IF k \in entry.keys THEN entry[k] ELSE ""

\* the pillar made of an entry
PillarOf(day, entry) ==
    IF day = FRIDAY /\ "alternative" \in entry.keys
    THEN IF {"name", "description"} \subseteq entry.keys
         THEN Returned(entry.name, entry.description)
         ELSE Raised
    ELSE Returned(EntryGet(entry, "name"), EntryGet(entry, "description"))

\* a mutant of GetDayPillar: the mapping is indexed, pillars[day_name], so a
\* day it does not hold raises KeyError
GetDayPillarIndexed(pillars, day, today) ==
    IF NormalDay(day, today) \in DOMAIN pillars
    THEN PillarOf(NormalDay(day, today), pillars[NormalDay(day, today)])
    ELSE Raised

\* _get_day_pillar(day_name), with the loaded mapping and today's day name
GetDayPillar(pillars, day, today) ==
    PillarOf(NormalDay(day, today), PillarEntry(pillars, NormalDay(day, today)))

----------------------------------------------------------------------------
(* SpecPillar: _get_day_pillar applied to every mapping of PillarConfigs    *)
(* and every day name of DayInputs.                                         *)

PillarEntries ==
    { [keys |-> ks,
       name |-> IF "name" \in ks THEN "Pillar" ELSE "",
       description |-> IF "description" \in ks THEN "About" ELSE ""] :
      ks \in { {}, {"name", "description"}, {"description"},
               {"name", "description", "alternative"}, {"description", "alternative"} } }

PillarConfigs ==
    UNION { [days -> PillarEntries] : days \in SUBSET {MONDAY, FRIDAY, ETE} }

Weekdays == { <<"M", "o", "n", "d", "a", "y">>, <<"F", "r", "i", "d", "a", "y">> }

DayInputs ==
    { <<>>, <<MONDAY>>, <<<<"M", "o", "n", "d", "a", "y">>>>, <<<<"M", "O", "N", "D", "A", "Y">>>>, <<FRIDAY>>, <<<<"F", "r", "i", "d", "a", "y">>>>,
      <<<<"b", "l", "u", "r", "s", "d", "a", "y">>>>, <<<<"B", "l", "u", "r", "s", "d", "a", "y">>>>, <<<<"É", "t", "é">>>>, << <<>> >> }

InitPillar ==
    /\ content_pillars \in PillarConfigs
    /\ day_name \in DayInputs
    /\ pillar = Returned("", "")
    /\ raw = <<>> /\ given = <<>> /\ expected_count = 0 /\ pc = "input" /\ out = <<>>
    /\ IdleApp

\* pillar = self._get_day_pillar(day_name)
ApplyGetDayPillar ==
    /\ pc = "input"
    /\ \E today \in Weekdays : pillar' = GetDayPillar(content_pillars, day_name, today)
    /\ pc' = "looked_up"
    /\ UNCHANGED <<raw, given, expected_count, out, content_pillars, day_name>>
    /\ UNCHANGED appVars

NextPillar == ApplyGetDayPillar

SpecPillar == InitPillar /\ [][NextPillar]_vars

\* C9: for a day name absent from the loaded mapping, _get_day_pillar returns
\* the pillar with name '' and description '' and does not raise.
C9_AbsentDayGivesEmptyPillar ==
    (pc = "looked_up" /\ day_name # <<>> /\ Lower(day_name[1]) \notin DOMAIN content_pillars) =>
        pillar = [raised |-> FALSE, name |-> "", description |-> ""]

\* C9 witness: 'blursday' was looked up in a mapping that holds monday and
\* friday.
C9_Witness ==
    /\ pc = "looked_up"
    /\ day_name = <<<<"b", "l", "u", "r", "s", "d", "a", "y">>>>
    /\ DOMAIN content_pillars = {MONDAY, FRIDAY}
    /\ content_pillars[MONDAY].name = "Pillar"
    /\ pillar = [raised |-> FALSE, name |-> "", description |-> ""]

----------------------------------------------------------------------------
(* src/app.py: the session controller.  A step of SpecApp is one run of    *)
(* the script, started by one user event: load_dotenv(), then main.        *)

\* num_ideas=7 of the 'Generate Ideas' handler
NumIdeas == 7

\* num_versions=5 of the select handler
NumVersions == 5

\* days
Days ==
    << <<"M", "o", "n", "d", "a", "y">>, <<"T", "u", "e", "s", "d", "a", "y">>,
       <<"W", "e", "d", "n", "e", "s", "d", "a", "y">>,
       <<"T", "h", "u", "r", "s", "d", "a", "y">>, <<"F", "r", "i", "d", "a", "y">>,
       <<"S", "a", "t", "u", "r", "d", "a", "y">>, <<"S", "u", "n", "d", "a", "y">> >>

\* load_dotenv(): OPENAI_API_KEY after the load, given what the .env file
\* holds for it (<<>> when there is no file or no entry); a variable that is
\* set is never overridden
LoadDotenv(key, dotenv) == IF key = <<>> THEN dotenv ELSE key

\* a mutant of NotApiKey: only an unset key is refused, 'api_key is None'
NotApiKeyNoneOnly(k) == k = <<>>

\* not api_key
NotApiKey(k) == k = <<>> \/ k[1] = ""

\* the value of the day selectbox when the user leaves it alone:
\* days[days.index(selected_day) if selected_day in days else 0]
ShownDay(day) == IF \E i \in DOMAIN Days : Days[i] = day THEN day ELSE Days[1]

\* the keyword arguments generate_brief_posts accepts
GenerateBriefPostsParams == {"idea", "num_versions"}

\* the parameters of generate_brief_posts that have no default
GenerateBriefPostsRequired == {"idea"}

\* the keyword arguments the select handler passes to generate_brief_posts
SelectCallKeywords == {"idea", "num_versions", "day_name", "context"}

\* a result of a generator: whether it raised, the completion-service calls
\* it made, and what it returned
Failed(n) == [raised |-> TRUE, calls |-> n, value |-> <<>>]

Succeeded(n, v) == [raised |-> FALSE, calls |-> n, value |-> v]

\* IdeaGenerator.generate_ideas(num_ideas, day_name, context), given the
\* outcome of its completion-service call
GenerateIdeas(num_ideas, day, pillars, today, completion) ==
    IF GetDayPillar(pillars, <<day>>, today).raised THEN Failed(0)
    ELSE IF completion.raised THEN Failed(1)
    ELSE Succeeded(1, ParseIdeas(completion.text))

\* BriefPostGenerator.generate_brief_posts called with the given keyword
\* arguments, given the outcome of its completion-service call: the call
\* raises a TypeError before the body runs when a keyword is not a parameter
\* or a parameter without default is not passed
GenerateBriefPosts(keywords, num_versions, pillars, today, completion) ==
    IF ~(keywords \subseteq GenerateBriefPostsParams) THEN Failed(0)
    ELSE IF ~(GenerateBriefPostsRequired \subseteq keywords) THEN Failed(0)
    ELSE IF GetDayPillar(pillars, <<>>, today).raised THEN Failed(0)
    ELSE IF completion.raised THEN Failed(1)
    ELSE Succeeded(1, ParseBriefPosts(completion.text, num_versions))

\* the widgets of the page were drawn by the last run: it ran to its end
Rendered == msg \in {"shown", "ideas_generated", "error_ideas", "posts_generated", "error_posts"}

\* the session state the handlers write
session == <<ideas, selected_idea, brief_posts>>

\* a mutant of GenerateHandler: a successful generation replaces ideas and
\* leaves selected_idea and brief_posts alone
GenerateHandlerKeepsSelection(day, today, completion) ==
    LET r == GenerateIdeas(NumIdeas, Lower(day), content_pillars, today, completion)
    IN  /\ calls' = r.calls
        /\ IF r.raised
           THEN /\ msg' = "error_ideas"
                /\ UNCHANGED session
           ELSE /\ ideas' = r.value
                /\ msg' = "ideas_generated"
                /\ UNCHANGED <<selected_idea, brief_posts>>

\* the 'Generate Ideas' handler
GenerateHandler(day, today, completion) ==
    LET r == GenerateIdeas(NumIdeas, Lower(day), content_pillars, today, completion)
    IN  /\ calls' = r.calls
        /\ IF r.raised
           THEN /\ msg' = "error_ideas"
                /\ UNCHANGED session
           ELSE /\ ideas' = r.value
                /\ selected_idea' = <<>>
                /\ brief_posts' = <<>>
                /\ msg' = "ideas_generated"

\* the 'This one' handler of idea i
SelectHandler(i, today, completion) ==
    LET r == GenerateBriefPosts(SelectCallKeywords, NumVersions, content_pillars,
                                today, completion)
    IN  /\ calls' = r.calls
        /\ selected_idea' = <<ideas[i]>>
        /\ brief_posts' = IF r.raised THEN <<>> ELSE r.value
        /\ msg' = IF r.raised THEN "error_posts" ELSE "posts_generated"
        /\ UNCHANGED ideas

\* one run of the script, started by event ev, with day and ctx the values
\* of the day selectbox and of the context box and dotenv what the .env file
\* holds: load_dotenv() at the top of the script, then main
Main(ev, day, ctx, i, today, completion, dotenv) ==
    /\ event' = ev
    /\ api_key' = LoadDotenv(api_key, dotenv)
    /\ UNCHANGED content_pillars
    /\ UNCHANGED parserVars /\ UNCHANGED pillarVars
    /\ IF NotApiKey(api_key')
       THEN /\ msg' = "no_api_key"
            /\ calls' = 0
            /\ UNCHANGED <<session, selected_day, context>>
       ELSE /\ selected_day' = day
            /\ IF GetDayPillar(content_pillars, <<Lower(day)>>, today).raised
               THEN /\ msg' = "exception"
                    /\ calls' = 0
                    /\ UNCHANGED <<session, context>>
               ELSE /\ context' = ctx
                    /\ IF ev = "generate" THEN GenerateHandler(day, today, completion)
                       ELSE IF ev = "select" THEN SelectHandler(i, today, completion)
                       ELSE /\ msg' = "shown"
                            /\ calls' = 0
                            /\ UNCHANGED session

----------------------------------------------------------------------------
(* SpecApp: the runs of main over a session.                               *)

ApiKeys == { <<>>, <<"">>, <<"sk-test">> }

\* what the .env file holds for OPENAI_API_KEY at a run
DotenvFiles == { <<>>, <<"">>, <<"sk-test">> }

UserDays == { <<"M", "o", "n", "d", "a", "y">>, <<"F", "r", "i", "d", "a", "y">> }

UserContexts == { <<>>, <<"n", "o", "t", "e">> }

AppConfigs ==
    { [d \in {MONDAY, FRIDAY} |->
          [keys |-> {"name", "description"}, name |-> "Pillar", description |-> "About"]],
      [d \in {FRIDAY} |->
          [keys |-> {"description", "alternative"}, name |-> "", description |-> "About"]] }

Responses ==
    { <<>>,
      <<"1", ".", " ", "A", "\n", "d", "e", "\n", "H", "o", "o", "k", ":", "\n", "o", "p", "e", "n", "\n", "\n", "2", ".", " ", "B", "\n", "f", "g">>,
      <<"d", "e">>,
      Join([i \in 1..(NumIdeas + 1) |-> <<Digits[i], ".", " ", "a">>], NL) }

\* what the completion service does with a request: it fails, or answers
Completions ==
    { [raised |-> TRUE, text |-> <<>>] }
    \cup { [raised |-> FALSE, text |-> t] : t \in Responses }

NoCompletion == [raised |-> TRUE, text |-> <<>>]

InitApp ==
    /\ api_key \in ApiKeys
    /\ content_pillars \in AppConfigs
    /\ ideas = <<>> /\ selected_idea = <<>> /\ brief_posts = <<>>
    /\ selected_day \in Weekdays
    /\ context = <<>>
    /\ event = "start" /\ msg = "" /\ calls = 0
    /\ IdleParser /\ IdlePillar

\* the page is loaded or reloaded
Rerun ==
    \E today \in Weekdays, dotenv \in DotenvFiles :
        Main("rerun", ShownDay(selected_day), context, 0, today, NoCompletion, dotenv)

\* the user picks a day
ChangeDay ==
    /\ msg \notin {"", "no_api_key"}
    /\ \E day \in UserDays, today \in Weekdays, dotenv \in DotenvFiles :
          Main("day", day, context, 0, today, NoCompletion, dotenv)

\* the user edits the context box
ChangeContext ==
    /\ Rendered
    /\ \E ctx \in UserContexts, today \in Weekdays, dotenv \in DotenvFiles :
          Main("context", ShownDay(selected_day), ctx, 0, today, NoCompletion, dotenv)

\* the user clicks 'Generate Ideas'
ClickGenerate ==
    /\ Rendered
    /\ \E today \in Weekdays, completion \in Completions, dotenv \in DotenvFiles :
          Main("generate", ShownDay(selected_day), context, 0, today, completion, dotenv)

\* the user clicks 'This one' of idea i
ClickSelect ==
    /\ Rendered
    /\ \E i \in 1..Len(ideas), today \in Weekdays, completion \in Completions,
             dotenv \in DotenvFiles :
          Main("select", ShownDay(selected_day), context, i, today, completion, dotenv)

NextApp == Rerun \/ ChangeDay \/ ChangeContext \/ ClickGenerate \/ ClickSelect

SpecApp == InitApp /\ [][NextApp]_vars

----------------------------------------------------------------------------
(* Claims about the session controller.                                    *)

\* C1 (as claimed): when a run of main ends with the error of a failed
\* generation, of either handler, ideas, selected_idea and brief_posts are
\* what they were before the run.
C1_FailedActionCommitsNothing ==
    [][msg' \in {"error_ideas", "error_posts"} =>
          /\ ideas' = ideas
          /\ selected_idea' = selected_idea
          /\ brief_posts' = brief_posts]_vars

\* C2 (as claimed): a run of main in which a generation handler ran, of
\* 'Generate Ideas' or of 'This one', made exactly one call to the
\* completion service.
C2_OneCallPerAction ==
    (/\ event \in {"generate", "select"}
     /\ msg \in {"ideas_generated", "error_ideas", "posts_generated", "error_posts"})
        => calls = 1

\* C7 (as claimed): the session never holds more than 7 ideas.
C7_AtMostSevenIdeas == Len(ideas) <= NumIdeas

\* C10: in a run in which main finds OPENAI_API_KEY unset or empty (after
\* load_dotenv), the run shows the missing-key message, makes no
\* completion-service call and leaves ideas, selected_idea and brief_posts
\* as they were.
C10_NoKeyBlocksEverything ==
    [][(api_key' = <<>> \/ api_key' = <<"">>) =>
          /\ msg' = "no_api_key"
          /\ calls' = 0
          /\ ideas' = ideas
          /\ selected_idea' = selected_idea
          /\ brief_posts' = brief_posts
          /\ selected_day' = selected_day]_vars

\* C10 witness: main has run with an empty OPENAI_API_KEY and was blocked.
C10_Witness ==
    /\ api_key = <<"">>
    /\ event = "rerun"
    /\ msg = "no_api_key"
    /\ calls = 0
    /\ ideas = <<>> /\ selected_idea = <<>> /\ brief_posts = <<>>

----------------------------------------------------------------------------
(* Further claims about _parse_ideas, checked under SpecIdeas.             *)

\* the line is a numbered line that carries no title: line 171 gives ''
UntitledStart(line) ==
    /\ Strip(line) # <<>>
    /\ IsRecordStart(Strip(line))
    /\ ExtractTitle(Strip(line)) = <<>>

\* the line is a numbered line that carries a title
TitledStart(line) ==
    /\ Strip(line) # <<>>
    /\ IsRecordStart(Strip(line))
    /\ ExtractTitle(Strip(line)) # <<>>

\* the line is neither blank, nor a record start, nor a hook or angle marker
PlainLine(line) ==
    /\ Strip(line) # <<>>
    /\ ~IsRecordStart(Strip(line))
    /\ ~IsHookMarker(Strip(line))

\* C11 (as claimed): when the first line is a numbered line with no title and
\* the next line is a plain line, the first record returned has that plain
\* line, trimmed, as its title.
C11_TitleFromNextLine ==
    (/\ pc = "parsed"
     /\ Len(given) >= 2
     /\ UntitledStart(given[1])
     /\ PlainLine(given[2]))
        => /\ out # <<>>
           /\ FieldIs(out[1], "title", Strip(given[2]))

\* C12 (as claimed): a record 'N. Title' followed by one plain description
\* line and no hook marker gets that line as its description, whether the
\* record is the last one or is followed by another record start.
C12_SameFlushAtStartAndEnd ==
    (/\ pc = "parsed"
     /\ Len(given) >= 2
     /\ TitledStart(given[1])
     /\ PlainLine(given[2])
     /\ \/ Len(given) = 2
        \/ Strip(given[3]) # <<>> /\ IsRecordStart(Strip(given[3])))
        => /\ out # <<>>
           /\ FieldIs(out[1], "description", Strip(given[2]))

----------------------------------------------------------------------------
(* The session invariant.                                                  *)

\* C13: selected_idea is None or one of the ideas of the session;
\* brief_posts is non-empty only when an idea is selected; and after a run in
\* which 'Generate Ideas' succeeded, selected_idea is None and brief_posts is
\* empty.
C13_SessionInvariant ==
    /\ selected_idea = <<>> \/ \E i \in DOMAIN ideas : ideas[i] = selected_idea[1]
    /\ brief_posts # <<>> => selected_idea # <<>>
    /\ (event = "generate" /\ msg = "ideas_generated") =>
           (selected_idea = <<>> /\ brief_posts = <<>>)

\* C13 witness: after ideas were generated and the second of them selected,
\* a 'Generate Ideas' click failed, and the selection is still among the ideas.
C13_Witness ==
    /\ event = "generate"
    /\ msg = "error_ideas"
    /\ Len(ideas) >= 2
    /\ selected_idea = <<ideas[2]>>

====
